---- MODULE Spec2Model ----
(***************************************************************************)
(* Model of auto_bot.py: the moderated anonymous-submission bot.           *)
(*                                                                         *)
(* The handlers are asyncio coroutines.  A coroutine runs without          *)
(* interruption until it awaits a transport call or has to wait for        *)
(* queue_lock; one action of this model is one such uninterrupted run.     *)
(* asyncio.Lock is modelled as asyncio implements it: acquire() returns    *)
(* at once when the lock is free and nobody waits, otherwise the caller    *)
(* joins a FIFO of waiters; release() wakes the first waiter, which stays  *)
(* in the FIFO until it runs.                                              *)
(*                                                                         *)
(* Time is counted in ticks of 1/TicksPerSecond second, so that the        *)
(* truncation int(total_seconds()) of check_rate_limit is visible.         *)
(* Texts are short tokens (all shorter than the 300-character preview      *)
(* cut).  The configuration values are scaled down.                        *)
(*                                                                         *)
(* A handler whose remaining code only awaits transport calls has left the *)
(* shared state for good: its run ends in `last`, the record of the        *)
(* handler that completed most recently with the reply it sent, and in     *)
(* `applied`, which lists for every id the decisions that handlers have    *)
(* carried out (the notices and publications of lines 363-420).  Likewise  *)
(* `await query.answer()`, which precedes every access of callback_handler *)
(* to the state, is part of the arrival of the callback.  The handles of   *)
(* the messages sent to the admins (admin_messages, lines 203-237) select  *)
(* only which transport call handle_edit_text makes and are left out.      *)
(*                                                                         *)
(* An entry is a Python dict that the handlers hold by reference.  It can  *)
(* change only while it is stored in `queue`; a handler that still holds   *)
(* the reference when the entry is popped is given the value the object    *)
(* keeps from then on.                                                     *)
(***************************************************************************)
EXTENDS Integers, Sequences, FiniteSets, TLC

\* ------------------------------------------------------------ configuration
\* auto_bot.py:31-33, scaled (the source values are 50, 3 and 300)
MAX_QUEUE_SIZE == 2
RATE_LIMIT_COUNT == 2
RATE_LIMIT_WINDOW == 1

\* auto_bot.py:20; S1 is a user who is not a moderator
ADMINS == <<"M1", "M2">>
AdminSet == {ADMINS[k] : k \in 1..Len(ADMINS)}
Users == {"S1"} \cup AdminSet

\* ------------------------------------------------------------------- bounds
TicksPerSecond == 2
MaxTime == 3
MaxQid == 3
MaxHandlers == 3

Handlers == 1..MaxHandlers
W == RATE_LIMIT_WINDOW * TicksPerSecond

\* ------------------------------------------------------------------- values
None == "None"
Truthy(s) == s # None /\ s # ""
\* Python's `a or b`
PyOr(a, b) == IF Truthy(a) THEN a ELSE b

MediaKinds == {"photo", "video", "document", "voice"}
\* What a user sends: a text (S1 types "hello", a moderator types "X"), one
\* kind of media, and a message that is neither text nor one of the four media
\* kinds (a sticker)
Messages(u) ==
    {[kind |-> "text", text |-> IF u \in AdminSet THEN "X" ELSE "hello", caption |-> None],
     [kind |-> "photo", text |-> None, caption |-> "cap"],
     [kind |-> "sticker", text |-> None, caption |-> None]}
NoMsg == [kind |-> "none", text |-> None, caption |-> None]

KnownActions == {"approve", "reject", "edit", "cancel_edit", "details", "back"}
Actions == KnownActions \cup {"bogus"}
\* callback data that `action, sid = data.split(":"); int(sid)` rejects
BadData == [action |-> "malformed", qid |-> 0]
CallbackData == {[action |-> a, qid |-> q] : a \in Actions, q \in 1..MaxQid} \cup {BadData}

\* what the transport does: whether the send to the channel returns or raises
Env == [pubok : BOOLEAN]
NoEnv == [pubok |-> TRUE]

VARIABLES queue, _next_qid, user_submissions, editing,
          locked, waiters, handlers, applied, last, now

vars == <<queue, _next_qid, user_submissions, editing,
          locked, waiters, handlers, applied, last, now>>

NoEntry ==
    [has_media |-> FALSE, kind |-> "none", text |-> None, caption |-> None,
     edited_text |-> None, edited_caption |-> None]

Idle ==
    [pc |-> "idle", fn |-> "none", user |-> "none", msg |-> NoMsg,
     action |-> "none", qid |-> 0, entry |-> NoEntry, outcome |-> "none",
     wait |-> 0, position |-> 0, content |-> None, original |-> None,
     edited |-> FALSE, listing |-> <<>>]

\* The state as one record, so that a handler's run is a composition of
\* functions from state to state.
World ==
    [queue |-> queue, nq |-> _next_qid, subs |-> user_submissions,
     editing |-> editing, locked |-> locked, waiters |-> waiters,
     hs |-> handlers, applied |-> applied, last |-> last, now |-> now]

Apply(w) ==
    /\ queue' = w.queue
    /\ _next_qid' = w.nq
    /\ user_submissions' = w.subs
    /\ editing' = w.editing
    /\ locked' = w.locked
    /\ waiters' = w.waiters
    /\ handlers' = w.hs
    /\ applied' = w.applied
    /\ last' = w.last
    /\ now' = w.now

\* ---------------------------------------------------------- pure functions
RECURSIVE SetMin(_)
SetMin(S) ==
    LET x == CHOOSE y \in S : TRUE
    IN IF S = {x} THEN x
       ELSE LET m == SetMin(S \ {x}) IN IF x < m THEN x ELSE m

\* sorted(queue.keys())
RECURSIVE sorted(_)
sorted(S) ==
    IF S = {} THEN <<>>
    ELSE LET m == SetMin(S) IN <<m>> \o sorted(S \ {m})

\* list.index(x): the 0-based index of the first occurrence, -1 for ValueError
RECURSIVE index(_, _, _)
index(s, x, k) ==
    IF k > Len(s) THEN -1
    ELSE IF s[k] = x THEN k - 1
    ELSE index(s, x, k + 1)

\* the position of whoever came last, whatever the id
get_queue_position_last(q, qid) == Cardinality(DOMAIN q)

\* q is the dict; 0 stands for the None that get_queue_position returns
get_queue_position(q, qid) ==
    LET sorted_qids == sorted(DOMAIN q)
        ix == index(sorted_qids, qid, 1)
    IN IF ix = -1 THEN 0 ELSE ix + 1

RECURSIVE SeqMin(_)
SeqMin(s) ==
    IF Len(s) = 1 THEN s[1]
    ELSE LET m == SeqMin(Tail(s)) IN IF s[1] < m THEN s[1] ELSE m

\* int(x / d) of Python: truncation toward zero
IntTrunc(x, d) == IF x >= 0 THEN x \div d ELSE -((-x) \div d)

\* now - ts < timedelta(seconds=RATE_LIMIT_WINDOW)
InWindow(ts, t) == t - ts < W

RECURSIVE SeqMax(_)
SeqMax(s) ==
    IF Len(s) = 1 THEN s[1]
    ELSE LET m == SeqMax(Tail(s)) IN IF s[1] > m THEN s[1] ELSE m

\* the wait counted from the newest timestamp instead of the oldest
check_rate_limit_newest(stamps, t) ==
    LET kept == SelectSeq(stamps, LAMBDA ts : InWindow(ts, t))
    IN IF Len(kept) >= RATE_LIMIT_COUNT
       THEN [allowed |-> FALSE, kept |-> kept,
             wait_seconds |-> IntTrunc(SeqMax(kept) + W - t, TicksPerSecond)]
       ELSE [allowed |-> TRUE, kept |-> kept, wait_seconds |-> 0]

check_rate_limit(stamps, t) ==
    LET kept == SelectSeq(stamps, LAMBDA ts : InWindow(ts, t))
    IN IF Len(kept) >= RATE_LIMIT_COUNT
       THEN LET oldest == SeqMin(kept)
                wait_until == oldest + W
            IN [allowed |-> FALSE, kept |-> kept,
                wait_seconds |-> IntTrunc(wait_until - t, TicksPerSecond)]
       ELSE [allowed |-> TRUE, kept |-> kept, wait_seconds |-> 0]

\* ids derived from the number of stored entries
next_qid_by_size(w) ==
    [qid |-> Cardinality(DOMAIN w.queue) + 1, w |-> [w EXCEPT !.nq = @ + 1]]

next_qid(w) == [qid |-> w.nq, w |-> [w EXCEPT !.nq = @ + 1]]

\* lines 175-189; `kind` stands for message_obj
NewEntry(m) ==
    [has_media |-> m.kind \in MediaKinds,
     kind |-> m.kind,
     text |-> PyOr(m.text, ""),
     caption |-> PyOr(m.caption, ""),
     edited_text |-> None,
     edited_caption |-> None]

\* dict without the key qid: queue.pop(qid, None)
DictPop(q, qid) == [k \in DOMAIN q \ {qid} |-> q[k]]

\* ------------------------------------------------------------ queue_lock
LockFree(w) == ~w.locked /\ w.waiters = <<>>

\* The reply of a handler: its record, without the parts of the update that
\* the reply does not show.
ReplyOf(r) ==
    [r EXCEPT !.pc = "done", !.msg = NoMsg, !.entry = NoEntry,
              !.qid = IF r.outcome \in {"NotFound", "Unauthorized", "BadRequest", "none"}
                      THEN 0 ELSE @]

\* the handler returns
Return(w, h) == [w EXCEPT !.last = ReplyOf(w.hs[h]), !.hs[h] = Idle]

\* the handler sends its reply and has nothing left to do but transport calls
Reply(w, h, outcome) == Return([w EXCEPT !.hs[h].outcome = outcome], h)

\* `async with queue_lock:` entered by handler h; `entered` is the state in
\* which the run of h that starts with the lock held ends.  A handler that
\* cannot take the fast path of acquire() joins the waiters and is suspended
\* at pcw.  A critical section that ends inside the same run leaves the lock
\* free; one that awaits inside sets w.locked.
Acquire(w, h, pcw, entered) ==
    IF LockFree(w) THEN entered
    ELSE [w EXCEPT !.waiters = Append(@, h), !.hs[h].pc = pcw]

\* The first waiter has been woken by release(): it leaves the waiters.
Woken(w) == [w EXCEPT !.waiters = Tail(@)]

AwaitHoldingLock(w, h, pc, outcome) ==
    [w EXCEPT !.locked = TRUE, !.hs[h].pc = pc, !.hs[h].outcome = outcome]

\* queue.pop(qid, None) by handler h.  The handlers that read the entry at line
\* 277 and wait for the lock at line 361 or 375 keep their reference to it.
Pop(w, h) ==
    LET qid == w.hs[h].qid
        holds(k) == /\ k # h
                    /\ w.hs[k].qid = qid
                    /\ w.hs[k].pc \in {"wait361", "wait375"}
                    /\ w.hs[k].entry = NoEntry
    IN IF qid \notin DOMAIN w.queue THEN w
       ELSE [w EXCEPT !.queue = DictPop(@, qid),
                      !.hs = [k \in Handlers |->
                                IF holds(k) THEN [w.hs[k] EXCEPT !.entry = w.queue[qid]]
                                ELSE w.hs[k]]]

\* the entry that handler h read at line 277
EntryOf(w, h) ==
    IF w.hs[h].qid \in DOMAIN w.queue THEN w.queue[w.hs[h].qid] ELSE w.hs[h].entry

\* --------------------------------------------------- handle_private_message
\* lines 191-201, entered with the lock held: insert, record the timestamp,
\* reply
Insert191(w, h, e) ==
    LET qid == w.hs[h].qid
        u == w.hs[h].user
        q1 == (qid :> NewEntry(w.hs[h].msg)) @@ w.queue
        position == get_queue_position(q1, qid)
        w1 == [w EXCEPT !.queue = q1,
                        !.subs[u] = Append(@, w.now),
                        !.hs[h].position = position]
    IN Reply(w1, h, "Accepted")

\* lines 172-191
Enqueue(w, h, e) ==
    LET n == next_qid(w)
        w1 == [n.w EXCEPT !.hs[h].qid = n.qid]
    IN Acquire(w1, h, "wait191", Insert191(w1, h, e))

\* the new text always stored as edited_text
Edit437_text_only(w, h, e) ==
    LET qid == w.hs[h].qid
        u == w.hs[h].user
    IN IF qid \notin DOMAIN w.queue
       THEN AwaitHoldingLock(w, h, "reply_stale", "NotFound")
       ELSE LET new_text == PyOr(w.hs[h].msg.text, "")
                w1 == [w EXCEPT !.queue[qid].edited_text = new_text]
                w2 == [w1 EXCEPT !.editing[u] = 0, !.hs[h].content = new_text]
            IN Reply(w2, h, "EditApplied")

\* lines 437-453, entered with the lock held
Edit437(w, h, e) ==
    LET qid == w.hs[h].qid
        u == w.hs[h].user
    IN IF qid \notin DOMAIN w.queue
       THEN AwaitHoldingLock(w, h, "reply_stale", "NotFound")
       ELSE LET new_text == PyOr(w.hs[h].msg.text, "")
                w1 == IF w.queue[qid].has_media
                      THEN [w EXCEPT !.queue[qid].edited_caption = new_text]
                      ELSE [w EXCEPT !.queue[qid].edited_text = new_text]
                w2 == [w1 EXCEPT !.editing[u] = 0, !.hs[h].content = new_text]
            IN Reply(w2, h, "EditApplied")

\* lines 424-437
handle_edit_text(w, h, e) ==
    LET u == w.hs[h].user
        qid == w.editing[u]
        w1 == [w EXCEPT !.hs[h].qid = qid]
    IN IF u \notin AdminSet THEN Reply(w, h, "Unauthorized")
       ELSE IF qid = 0 THEN Return(w, h)
       ELSE Acquire(w1, h, "wait437", Edit437(w1, h, e))

\* the capacity test with > instead of >=
Check156_strict(w, h, e) ==
    LET u == w.hs[h].user
    IN IF Cardinality(DOMAIN w.queue) > MAX_QUEUE_SIZE
       THEN AwaitHoldingLock(w, h, "reply_full", "QueueFull")
       ELSE IF u \in AdminSet /\ w.editing[u] # 0
       THEN IF Truthy(w.hs[h].msg.text)
            THEN handle_edit_text(w, h, e)
            ELSE Reply(w, h, "TextOnly")
       ELSE Enqueue(w, h, e)

\* the id drawn before the capacity test
Check156_early_id(w, h, e) ==
    LET u == w.hs[h].user
        n == next_qid(w)
    IN IF Cardinality(DOMAIN w.queue) >= MAX_QUEUE_SIZE
       THEN AwaitHoldingLock(n.w, h, "reply_full", "QueueFull")
       ELSE IF u \in AdminSet /\ w.editing[u] # 0
       THEN IF Truthy(w.hs[h].msg.text)
            THEN handle_edit_text(w, h, e)
            ELSE Reply(w, h, "TextOnly")
       ELSE Enqueue(w, h, e)

\* a message without text of a moderator who is editing taken as a submission
Check156_text_routed(w, h, e) ==
    LET u == w.hs[h].user
    IN IF Cardinality(DOMAIN w.queue) >= MAX_QUEUE_SIZE
       THEN AwaitHoldingLock(w, h, "reply_full", "QueueFull")
       ELSE IF u \in AdminSet /\ w.editing[u] # 0 /\ Truthy(w.hs[h].msg.text)
       THEN handle_edit_text(w, h, e)
       ELSE Enqueue(w, h, e)

\* lines 157-170, entered with the lock held
Check156(w, h, e) ==
    LET u == w.hs[h].user
    IN IF Cardinality(DOMAIN w.queue) >= MAX_QUEUE_SIZE
       THEN AwaitHoldingLock(w, h, "reply_full", "QueueFull")
       ELSE IF u \in AdminSet /\ w.editing[u] # 0
       THEN IF Truthy(w.hs[h].msg.text)
            THEN handle_edit_text(w, h, e)
            ELSE Reply(w, h, "TextOnly")
       ELSE Enqueue(w, h, e)

\* lines 137-156: a private message m of user u is handled in slot h
handle_private_message(w, h, e, u, m) ==
    LET r == check_rate_limit(w.subs[u], w.now)
        w1 == [w EXCEPT !.subs[u] = r.kept,
                        !.hs[h] = [Idle EXCEPT !.fn = "msg", !.user = u, !.msg = m]]
    IN IF ~r.allowed
       THEN Reply([w1 EXCEPT !.hs[h].wait = r.wait_seconds], h, "RateLimited")
       ELSE Acquire(w1, h, "wait156", Check156(w1, h, e))

\* ---------------------------------------------------------- callback_handler
EntryEdited(entry) == IF entry.has_media THEN entry.edited_caption ELSE entry.edited_text
IsEdited(entry) == Truthy(entry.edited_text) \/ Truthy(entry.edited_caption)

\* lines 283-313
Details(w, h) ==
    LET qid == w.hs[h].qid
        entry == w.queue[qid]
        original == IF entry.has_media THEN PyOr(entry.caption, "(none)") ELSE entry.text
        w1 == [w EXCEPT !.hs[h].original = original,
                        !.hs[h].content = PyOr(EntryEdited(entry), original),
                        !.hs[h].edited = IsEdited(entry),
                        !.hs[h].position = get_queue_position(w.queue, qid)]
    IN Reply(w1, h, "Details")

\* the main view showing the original whatever the edits
Back_original(w, h) ==
    LET entry == w.queue[w.hs[h].qid]
        preview == PyOr(PyOr(entry.text, entry.caption),
                        IF entry.has_media THEN "<media>" ELSE "<empty>")
        w1 == [w EXCEPT !.hs[h].content = preview,
                        !.hs[h].edited = IsEdited(entry)]
    IN Reply(w1, h, "Back")

\* lines 315-337
Back(w, h) ==
    LET entry == w.queue[w.hs[h].qid]
        preview ==
            IF Truthy(entry.edited_text) THEN entry.edited_text
            ELSE IF Truthy(entry.edited_caption) THEN entry.edited_caption
            ELSE PyOr(PyOr(entry.text, entry.caption),
                      IF entry.has_media THEN "<media>" ELSE "<empty>")
        w1 == [w EXCEPT !.hs[h].content = preview,
                        !.hs[h].edited = IsEdited(entry)]
    IN Reply(w1, h, "Back")

\* lines 361-371, entered with the lock held
Pop361(w, h, e) ==
    LET qid == w.hs[h].qid
        w1 == Pop(w, h)
    IN Reply([w1 EXCEPT !.applied[qid] = Append(@, "reject")], h, "Rejected")

\* whether one of the branches of lines 384-409 sends the message
Publishes(entry) == entry.kind = "text" \/ entry.kind \in MediaKinds

\* what approve sends to the channel
PublishContent(entry) ==
    LET text_to_post == PyOr(PyOr(entry.edited_text, entry.text), "")
        caption_to_post == PyOr(PyOr(entry.edited_caption, entry.caption), "")
    IN IF entry.kind = "text" THEN text_to_post
       ELSE IF entry.kind \in MediaKinds THEN PyOr(caption_to_post, None)
       ELSE None

\* the entry removed only once the send to the channel has succeeded
Pop375_requeue(w, h, e) ==
    LET qid == w.hs[h].qid
        entry == EntryOf(w, h)
        failed == Publishes(entry) /\ ~e.pubok
        w1 == IF failed THEN w ELSE Pop(w, h)
        w2 == [w1 EXCEPT !.applied[qid] = Append(@, "approve"),
                         !.hs[h].content = PublishContent(entry)]
    IN Reply(w2, h, IF failed THEN "PublishFailed"
                    ELSE IF Publishes(entry) THEN "Approved"
                    ELSE "ApprovedUnsent")

\* lines 375-420, entered with the lock held; e.pubok tells whether the send to
\* the channel returns or raises
Pop375(w, h, e) ==
    LET qid == w.hs[h].qid
        entry == EntryOf(w, h)
        failed == Publishes(entry) /\ ~e.pubok
        w1 == Pop(w, h)
        w2 == [w1 EXCEPT !.applied[qid] = Append(@, "approve"),
                         !.hs[h].content = PublishContent(entry)]
    IN Reply(w2, h, IF failed THEN "PublishFailed"
                    ELSE IF Publishes(entry) THEN "Approved"
                    ELSE "ApprovedUnsent")

\* edit starting a session only for a moderator who has none
Get276_no_replace(w, h, e) ==
    LET qid == w.hs[h].qid
        u == w.hs[h].user
        action == w.hs[h].action
    IN IF qid \notin DOMAIN w.queue THEN Reply(w, h, "NotFound")
       ELSE IF action = "details" THEN Details(w, h)
       ELSE IF action = "back" THEN Back(w, h)
       ELSE IF action = "edit"
       THEN Reply([w EXCEPT !.editing[u] = IF @ = 0 THEN qid ELSE @], h, "EditPrompt")
       ELSE IF action = "cancel_edit" THEN Reply([w EXCEPT !.editing[u] = 0], h, "Cancelled")
       ELSE IF action = "reject" THEN Acquire(w, h, "wait361", Pop361(w, h, e))
       ELSE IF action = "approve" THEN Acquire(w, h, "wait375", Pop375(w, h, e))
       ELSE Return(w, h)

\* lines 277-420, entered with the lock held
Get276(w, h, e) ==
    LET qid == w.hs[h].qid
        u == w.hs[h].user
        action == w.hs[h].action
    IN IF qid \notin DOMAIN w.queue THEN Reply(w, h, "NotFound")
       ELSE IF action = "details" THEN Details(w, h)
       ELSE IF action = "back" THEN Back(w, h)
       ELSE IF action = "edit" THEN Reply([w EXCEPT !.editing[u] = qid], h, "EditPrompt")
       ELSE IF action = "cancel_edit" THEN Reply([w EXCEPT !.editing[u] = 0], h, "Cancelled")
       ELSE IF action = "reject" THEN Acquire(w, h, "wait361", Pop361(w, h, e))
       ELSE IF action = "approve" THEN Acquire(w, h, "wait375", Pop375(w, h, e))
       ELSE Return(w, h)

\* lines 261-276: the callback d of user u is handled in slot h
callback_handler(w, h, e, u, d) ==
    LET w1 == [w EXCEPT !.hs[h] = [Idle EXCEPT !.fn = "cb", !.user = u,
                                               !.action = d.action, !.qid = d.qid]]
    IN IF d = BadData THEN Reply(w1, h, "BadRequest")
       ELSE IF u \notin AdminSet THEN Reply(w1, h, "Unauthorized")
       ELSE Acquire(w1, h, "wait276", Get276(w1, h, e))

\* ------------------------------------------------------ queue_cmd, cancel_edit
\* lines 526-535, entered with the lock held
List525(w, h, e) ==
    IF DOMAIN w.queue = {} THEN AwaitHoldingLock(w, h, "reply_empty", "Listed")
    ELSE Reply([w EXCEPT !.hs[h].listing = sorted(DOMAIN w.queue)], h, "Listed")

\* lines 521-525
queue_cmd(w, h, e, u) ==
    LET w1 == [w EXCEPT !.hs[h] = [Idle EXCEPT !.fn = "queue", !.user = u]]
    IN IF u \notin AdminSet THEN Reply(w1, h, "Unauthorized")
       ELSE Acquire(w1, h, "wait525", List525(w1, h, e))

\* lines 515-517
cancel_edit(w, h, u) ==
    LET w1 == [w EXCEPT !.hs[h] = [Idle EXCEPT !.fn = "cancel", !.user = u],
                        !.editing[u] = 0]
    IN Reply(w1, h, "Cancelled")

\* The reply awaited while holding the lock has returned: lines 158-161,
\* 440-442 and 527-528
AfterLockedReply(w, h) ==
    LET u == w.hs[h].user
        w1 == IF w.hs[h].pc = "reply_stale" THEN [w EXCEPT !.editing[u] = 0] ELSE w
    IN Return([w1 EXCEPT !.locked = FALSE], h)

\* An update handled from its arrival to its return with nothing else running:
\* a private message, a pressed button, /queue.
Finish(w, h) ==
    IF w.hs[h].pc \in {"reply_full", "reply_stale", "reply_empty"}
    THEN AfterLockedReply(w, h) ELSE w
Submit(w, u, m) == Finish(handle_private_message(w, 1, NoEnv, u, m), 1)
Press(w, u, action, qid) ==
    Finish(callback_handler(w, 1, NoEnv, u, [action |-> action, qid |-> qid]), 1)
ListPending(w, u) == Finish(queue_cmd(w, 1, NoEnv, u), 1)
Cancel(w, u) == Finish(cancel_edit(w, 1, u), 1)
\* a pressed button while the transport behaves as e says
PressWith(w, u, action, qid, e) ==
    Finish(callback_handler(w, 1, e, u, [action |-> action, qid |-> qid]), 1)

\* ------------------------------------------------------------------ actions
Init ==
    /\ queue = <<>>
    /\ _next_qid = 1
    /\ user_submissions = [u \in Users |-> <<>>]
    /\ editing = [u \in Users |-> 0]
    /\ locked = FALSE
    /\ waiters = <<>>
    /\ handlers = [h \in Handlers |-> Idle]
    /\ applied = [q \in 1..MaxQid |-> <<>>]
    /\ last = Idle
    /\ now = 0

\* a new update is handled in the lowest free slot
FreeSlot(h) ==
    /\ handlers[h].pc = "idle"
    /\ \A k \in Handlers : k < h => handlers[k].pc # "idle"

\* no update is being handled
Quiet == \A h \in Handlers : handlers[h].pc = "idle"

\* the handlers that may still draw an id
MayEnqueue(w) == {k \in Handlers : w.hs[k].pc = "wait156"}

\* a private message of a user of U, of one of the kinds K
StartMessage(h, U, K) ==
    /\ FreeSlot(h)
    /\ \E u \in U : \E m \in {x \in Messages(u) : x.kind \in K} :
         LET w == handle_private_message(World, h, NoEnv, u, m)
         IN /\ w.nq + Cardinality(MayEnqueue(w)) <= MaxQid + 1
            /\ Apply(w)

\* a button pressed by a user of U, with callback data of D; the sends to the
\* channel behave as E allows
StartCallback(h, U, D, E) ==
    /\ FreeSlot(h)
    /\ \E u \in U, d \in D :
         \E e \in IF d.action = "approve" THEN E ELSE {NoEnv} :
            Apply(callback_handler(World, h, e, u, d))

\* /queue
StartQueueCmd(h, U) ==
    /\ FreeSlot(h)
    /\ \E u \in U : Apply(queue_cmd(World, h, NoEnv, u))

\* /cancel
StartCancel(h, U) ==
    /\ FreeSlot(h)
    /\ \E u \in U : Apply(cancel_edit(World, h, u))

IsWoken(h, pc) ==
    /\ handlers[h].pc = pc
    /\ ~locked
    /\ waiters # <<>>
    /\ Head(waiters) = h

Resume156(h) ==
    /\ IsWoken(h, "wait156")
    /\ Apply(Check156(Woken(World), h, NoEnv))

Resume191(h) ==
    /\ IsWoken(h, "wait191")
    /\ Apply(Insert191(Woken(World), h, NoEnv))

Resume437(h) ==
    /\ IsWoken(h, "wait437")
    /\ Apply(Edit437(Woken(World), h, NoEnv))

Resume276(h, E) ==
    /\ IsWoken(h, "wait276")
    /\ \E e \in IF handlers[h].action = "approve" THEN E ELSE {NoEnv} :
         Apply(Get276(Woken(World), h, e))

Resume361(h) ==
    /\ IsWoken(h, "wait361")
    /\ Apply(Pop361(Woken(World), h, NoEnv))

Resume375(h, E) ==
    /\ IsWoken(h, "wait375")
    /\ \E e \in E : Apply(Pop375(Woken(World), h, e))

Resume525(h) ==
    /\ IsWoken(h, "wait525")
    /\ Apply(List525(Woken(World), h, NoEnv))

LockedReplied(h) ==
    /\ handlers[h].pc \in {"reply_full", "reply_stale", "reply_empty"}
    /\ Apply(AfterLockedReply(World, h))

Tick ==
    /\ now < MaxTime
    /\ now' = now + 1
    /\ UNCHANGED <<queue, _next_qid, user_submissions, editing,
                   locked, waiters, handlers, applied, last>>

AllKinds == {"text", "photo", "sticker"}
OneCallback == {[action |-> "approve", qid |-> 1]}
DataOf(A) == {[action |-> a, qid |-> q] : a \in A, q \in 1..MaxQid}

\* One update at a time, as the Application that main() builds dispatches
\* them.  S1 sends every kind of message and tries the buttons and commands;
\* the moderator M1 presses every button, runs the commands and types texts.
\* The clock stands still.
Next ==
    \E h \in Handlers :
        \/ Quiet /\ StartMessage(h, {"S1"}, AllKinds)
        \/ Quiet /\ StartMessage(h, {"M1"}, {"text"})
        \/ Quiet /\ StartCallback(h, {"M1"}, CallbackData, Env)
        \/ Quiet /\ StartCallback(h, {"S1"}, OneCallback, Env)
        \/ Quiet /\ StartQueueCmd(h, {"S1", "M1"})
        \/ Quiet /\ StartCancel(h, {"S1", "M1"})
        \/ LockedReplied(h)

Spec == Init /\ [][Next]_vars

\* One update at a time while the clock runs: texts of S1 and M1, reject and
\* edit pressed by M1.
NextClock ==
    \/ \E h \in Handlers :
         \/ Quiet /\ StartMessage(h, {"S1", "M1"}, {"text"})
         \/ Quiet /\ StartCallback(h, {"M1"}, DataOf({"reject", "edit"}), {NoEnv})
         \/ LockedReplied(h)
    \/ Tick

SpecClock == Init /\ [][NextClock]_vars

\* Updates handled as concurrent tasks, which is what queue_lock is for.  Up
\* to two tasks at a time: texts of S1 and M1, approve pressed by M1 and reject
\* pressed by M2, /queue by M1.  Every send succeeds and the clock stands
\* still.
Pair == {h \in Handlers : h <= 2}

NextConc ==
    \E h \in Pair :
        \/ StartMessage(h, {"S1", "M1"}, {"text"})
        \/ StartCallback(h, {"M1"}, DataOf({"approve"}), {NoEnv})
        \/ StartCallback(h, {"M2"}, DataOf({"reject"}), {NoEnv})
        \/ StartQueueCmd(h, {"M1"})
        \/ Resume156(h)
        \/ Resume191(h)
        \/ Resume276(h, {NoEnv})
        \/ Resume361(h)
        \/ Resume375(h, {NoEnv})
        \/ Resume525(h)
        \/ LockedReplied(h)

SpecConc == Init /\ [][NextConc]_vars

\* Up to MaxHandlers concurrent tasks: texts of S1 and M1, /queue by M1.
NextCap ==
    \E h \in Handlers :
        \/ StartMessage(h, {"S1", "M1"}, {"text"})
        \/ StartQueueCmd(h, {"M1"})
        \/ Resume156(h)
        \/ Resume191(h)
        \/ Resume525(h)
        \/ LockedReplied(h)

SpecCap == Init /\ [][NextCap]_vars

\* One update at a time with two moderators at work: S1 sends texts and
\* photos, M1 sends texts and photos, presses edit, cancel_edit and approve and sends
\* /cancel, M2 presses edit and reject.
NextMods ==
    \E h \in Handlers :
        \/ Quiet /\ StartMessage(h, {"S1"}, {"text", "photo"})
        \/ Quiet /\ StartMessage(h, {"M1"}, {"text", "photo"})
        \/ Quiet /\ StartCallback(h, {"M1"}, DataOf({"edit", "cancel_edit", "approve"}), {NoEnv})
        \/ Quiet /\ StartCallback(h, {"M2"}, DataOf({"edit", "reject"}), {NoEnv})
        \/ Quiet /\ StartCancel(h, {"M1"})
        \/ LockedReplied(h)

SpecMods == Init /\ [][NextMods]_vars

\* ------------------------------------------------------------------- claims
\* C1: when approve and reject of the same stored id race, whatever the
\* interleaving exactly one of them is applied: over the whole run at most one
\* handler reports the id approved or rejected (the other answers NotFound).
C1_SingleWinner ==
    \A q \in 1..MaxQid :
        ~(\E i, j \in 1..Len(applied[q]) : applied[q][i] = "approve" /\ applied[q][j] = "reject")

\* C2: the number of stored submissions never exceeds MAX_QUEUE_SIZE.
C2_QueueBounded == Cardinality(DOMAIN queue) <= MAX_QUEUE_SIZE

\* the sender would be admitted by the rate limiter now
Admitted(w, u) == check_rate_limit(w.subs[u], w.now).allowed
\* the message of u is a submission, not the text of an edit
Plain(w, u) == u \notin AdminSet \/ w.editing[u] = 0
Size(w) == Cardinality(DOMAIN w.queue)
Decisions == {"approve", "reject"}

\* C3: when the queue holds MAX_QUEUE_SIZE submissions, a submission of an
\* admitted sender is answered QueueFull and stores nothing; below the capacity
\* it is Accepted and stored; and once any one stored submission has been
\* approved or rejected, the next submission of an admitted sender is Accepted.
C3_QueueFullThenAccepted ==
    Quiet =>
      \A u \in {"S1", "M1"} : \A m \in Messages(u) :
        /\ (Admitted(World, u) /\ Plain(World, u)) =>
             LET w == Submit(World, u, m)
             IN IF Size(World) >= MAX_QUEUE_SIZE
                THEN w.last.outcome = "QueueFull" /\ w.queue = queue
                ELSE /\ w.last.outcome = "Accepted"
                     /\ w.last.qid \in DOMAIN w.queue \ DOMAIN queue
                     /\ Size(w) = Size(World) + 1
        /\ Size(World) = MAX_QUEUE_SIZE =>
             \A q \in DOMAIN queue : \A d \in Decisions :
               LET w1 == Press(World, "M1", d, q)
               IN (Admitted(w1, u) /\ Plain(w1, u)) =>
                     Submit(w1, u, m).last.outcome = "Accepted"

\* the queue was full, one submission has been decided, and the next
\* submission has been accepted
C3_Witness ==
    /\ Quiet
    /\ last.outcome = "Accepted"
    /\ last.qid = MAX_QUEUE_SIZE + 1
    /\ Size(World) = MAX_QUEUE_SIZE
    /\ \E q \in 1..MAX_QUEUE_SIZE : applied[q] # <<>>

\* the timestamps of u inside the trailing window (now - W, now]
Recent(u) ==
    {user_submissions[u][i] : i \in {k \in 1..Len(user_submissions[u]) :
                                        /\ user_submissions[u][k] > now - W
                                        /\ user_submissions[u][k] <= now}}

\* A sender with RATE_LIMIT_COUNT submissions inside the trailing window is
\* answered RateLimited with waitSeconds = floor(oldest + W - now), which lies
\* between `least` and the window length.
WaitSecondsFrom(least) ==
    Quiet =>
      \A u \in {"S1", "M1"} : \A m \in Messages(u) :
        Len(SelectSeq(user_submissions[u], LAMBDA ts : ts \in Recent(u))) >= RATE_LIMIT_COUNT =>
          LET r == Submit(World, u, m).last
              remaining == SetMin(Recent(u)) + W - now
          IN /\ r.outcome = "RateLimited"
             /\ r.wait * TicksPerSecond <= remaining
             /\ remaining < (r.wait + 1) * TicksPerSecond
             /\ least <= r.wait
             /\ r.wait <= RATE_LIMIT_WINDOW

C5_RetryAfterWait ==
    Quiet =>
      \A u \in {"S1", "M1"} : \A m \in Messages(u) :
        LET w1 == Submit(World, u, m)
            t1 == now + w1.last.wait * TicksPerSecond
        IN (w1.last.outcome = "RateLimited" /\ Plain(World, u) /\ Size(World) < MAX_QUEUE_SIZE) =>
              /\ Admitted([w1 EXCEPT !.now = t1], u)
              /\ Submit([w1 EXCEPT !.now = t1], u, m).last.outcome = "Accepted"

\* C6: a submission answered RateLimited or QueueFull stores nothing, draws no
\* id, records no timestamp (only expired timestamps of the sender are
\* dropped) and changes no edit session.
C6_NoPartialState ==
    Quiet =>
      \A u \in {"S1", "M1"} : \A m \in Messages(u) :
        LET w == Submit(World, u, m)
            kept(ts) == \E i \in 1..Len(w.subs[u]) : w.subs[u][i] = ts
        IN w.last.outcome \in {"RateLimited", "QueueFull"} =>
             /\ w.queue = queue
             /\ w.nq = _next_qid
             /\ w.editing = editing
             /\ \A v \in Users \ {u} : w.subs[v] = user_submissions[v]
             /\ w.subs[u] = SelectSeq(user_submissions[u], kept)
             /\ \A i \in 1..Len(user_submissions[u]) :
                  kept(user_submissions[u][i]) \/ now - user_submissions[u][i] >= W

\* a moderator who is editing has been answered QueueFull
C6_Witness ==
    /\ Quiet
    /\ last.outcome = "QueueFull"
    /\ last.user = "M1"
    /\ editing["M1"] # 0
    /\ now > 0

\* the ids drawn by handlers that have not inserted their entry yet
Pending == {handlers[h].qid : h \in {k \in Handlers : handlers[k].pc = "wait191"}}
\* the ids whose entry has been removed by approve or reject
Removed == {q \in 1..MaxQid : applied[q] # <<>>}
\* every id assigned so far
Assigned == DOMAIN queue \cup Pending \cup Removed

IdsIncrease ==
    /\ Assigned \subseteq Assigned'
    /\ \A q \in Assigned' \ Assigned : \A o \in Assigned : q > o
    /\ \A q \in Assigned' : q < _next_qid'
    /\ \A h, k \in Handlers :
         (h # k /\ handlers'[h].pc = "wait191" /\ handlers'[k].pc = "wait191") =>
            handlers'[h].qid # handlers'[k].qid
    /\ Pending' \cap DOMAIN queue' = {}
    /\ Removed' \cap (DOMAIN queue' \cup Pending') = {}

\* C7: every id assigned is greater than every id assigned before it, whatever
\* the interleaving of submissions, approvals and rejections; no two
\* submissions share an id and the id of a removed submission is never assigned
\* again.
C7_IdsIncrease == [][IdsIncrease]_vars

\* ids are stored, drawn but not yet inserted, and removed at the same time
C7_Witness ==
    /\ DOMAIN queue # {}
    /\ Pending # {}
    /\ Removed # {}
    /\ _next_qid = MaxQid + 1

\* C8: the position of a stored id is its 1-based rank among the stored ids in
\* ascending order, an id that is not stored has none, submitContent returns
\* the rank of the new id, and removing the lowest stored id lowers the
\* position of every remaining id by one.
C8_PositionIsRank ==
    LET rank(q, k) == 1 + Cardinality({x \in DOMAIN q : x < k})
    IN /\ \A k \in DOMAIN queue : get_queue_position(queue, k) = rank(queue, k)
       /\ \A k \in (1..MaxQid) \ DOMAIN queue : get_queue_position(queue, k) = 0
       /\ Quiet =>
            /\ \A u \in {"S1", "M1"} : \A m \in Messages(u) :
                 LET w == Submit(World, u, m)
                 IN w.last.outcome = "Accepted" =>
                      w.last.position = rank(w.queue, w.last.qid)
            /\ DOMAIN queue # {} =>
                 \A d \in Decisions :
                   LET w1 == Press(World, "M1", d, SetMin(DOMAIN queue))
                   IN /\ DOMAIN w1.queue = DOMAIN queue \ {SetMin(DOMAIN queue)}
                      /\ \A k \in DOMAIN w1.queue :
                           /\ get_queue_position(w1.queue, k) =
                                 get_queue_position(queue, k) - 1
                           /\ Press(w1, "M1", "details", k).last.position =
                                 Press(World, "M1", "details", k).last.position - 1

\* a submission has been accepted at position 2 behind an older one, after the
\* lowest id was removed
C8_Witness ==
    /\ Quiet
    /\ last.outcome = "Accepted"
    /\ last.position = 2
    /\ 1 \notin DOMAIN queue
    /\ applied[1] # <<>>

\* what the submitter sent: the text, or the caption of a media message
Original(entry) == IF entry.has_media THEN entry.caption ELSE entry.text
ModeratorText == [kind |-> "text", text |-> "X", caption |-> None]

\* C9: for every stored id and moderator: after requestEdit and the
\* moderator's text X, viewDetails shows X as current content and the original
\* as original, back shows X, approve publishes X, and afterwards the id is
\* gone from the listing.
C9_EditRoundTrip ==
    Quiet =>
      \A q \in DOMAIN queue :
        LET w1 == Press(World, "M1", "edit", q)
            w2 == Submit(w1, "M1", ModeratorText)
            d == Press(w2, "M1", "details", q).last
            b == Press(w2, "M1", "back", q).last
            w3 == Press(w2, "M1", "approve", q)
            l == ListPending(w3, "M1").last
        IN /\ w1.last.outcome = "EditPrompt"
           /\ w2.last.outcome = "EditApplied"
           /\ d.outcome = "Details" /\ d.content = "X" /\ d.edited
           /\ d.original = Original(queue[q])
           /\ b.outcome = "Back" /\ b.content = "X" /\ b.edited
           /\ w3.last.outcome = "Approved" /\ w3.last.content = "X"
           /\ q \notin DOMAIN w3.queue
           /\ \A i \in 1..Len(l.listing) : l.listing[i] # q

\* C10: for every kind of submission the queue accepts, approve publishes the
\* edited content if there is one and the original otherwise and notifies the
\* submitter of the approval, reject notifies the submitter of the rejection,
\* and both remove the submission.
C10_DecisionEffects ==
    Quiet =>
      \A q \in DOMAIN queue :
        LET a == Press(World, "M1", "approve", q)
            r == Press(World, "M1", "reject", q)
            edited == EntryEdited(queue[q])
        IN /\ a.last.outcome = "Approved"
           /\ a.last.content = IF Truthy(edited) THEN edited ELSE Original(queue[q])
           /\ q \notin DOMAIN a.queue
           /\ r.last.outcome = "Rejected"
           /\ q \notin DOMAIN r.queue

\* C11: a moderator with an edit session on a stored id who sends a text gets
\* it applied as the override of that submission, the session is cleared and
\* the answer is EditApplied, whatever the queue size and the moderator's own
\* rate window.
C11_EditAlwaysApplied ==
    Quiet =>
      \A mod \in AdminSet :
        editing[mod] \in DOMAIN queue =>
          LET q == editing[mod]
              w == Submit(World, mod, ModeratorText)
          IN /\ w.last.outcome = "EditApplied"
             /\ w.last.qid = q
             /\ w.editing[mod] = 0
             /\ q \in DOMAIN w.queue
             /\ EntryEdited(w.queue[q]) = "X"

\* C12: approve and reject of an id succeed while a moderator has an edit
\* session on it; that moderator's next text is then answered NotFound, changes
\* no submission and clears the session.
C12_StaleSession ==
    Quiet =>
      \A mod \in AdminSet :
        editing[mod] \in DOMAIN queue =>
          \A by \in AdminSet : \A d \in Decisions :
            LET q == editing[mod]
                w1 == Press(World, by, d, q)
                w2 == Submit(w1, mod, ModeratorText)
            IN /\ q \notin DOMAIN w1.queue
               /\ w1.applied[q] = Append(applied[q], d)
               /\ w1.editing[mod] = q
               /\ w2.last.outcome = "NotFound"
               /\ w2.queue = w1.queue
               /\ w2.editing[mod] = 0

\* C13: cancelEdit by a moderator, by the cancel_edit button of the edit
\* prompt or by /cancel, in every state leaves the moderator without edit
\* session and the stored submissions as they are.
C13_CancelClearsSession ==
    Quiet =>
      \A mod \in AdminSet :
        /\ LET c == Cancel(World, mod)
           IN c.editing[mod] = 0 /\ c.queue = queue
        /\ editing[mod] # 0 =>
             LET b == Press(World, mod, "cancel_edit", editing[mod])
             IN b.editing[mod] = 0 /\ b.queue = queue

\* the state that the handlers share is the same in w as now
SameState(w) ==
    /\ w.queue = queue
    /\ w.nq = _next_qid
    /\ w.editing = editing
    /\ w.subs = user_submissions

\* C14: every moderator operation (the six buttons, /queue and /cancel) of a
\* user who is not a moderator is answered Unauthorized and changes nothing
\* in the queue, the edit sessions and the rate windows.
C14_Unauthorized ==
    Quiet =>
      \A u \in Users \ AdminSet :
        /\ \A a \in KnownActions : \A q \in 1..MaxQid :
             LET w == Press(World, u, a, q)
             IN w.last.outcome = "Unauthorized" /\ SameState(w)
        /\ LET w == ListPending(World, u)
           IN w.last.outcome = "Unauthorized" /\ SameState(w)
        /\ LET w == Cancel(World, u)
           IN w.last.outcome = "Unauthorized" /\ SameState(w)

\* C15: a button whose action name is none of approve, reject, edit,
\* cancel_edit, details, back is answered BadRequest, also when its id is
\* stored; it is never passed over without an answer.
C15_DispatchTotal ==
    Quiet =>
      \A q \in DOMAIN queue : \A a \in Actions \ KnownActions :
        Press(World, "M1", a, q).last.outcome = "BadRequest"

\* handler h is awaiting the transport call of a reply
Replying(h) == handlers[h].pc \in {"reply_full", "reply_stale", "reply_empty"}

\* C16: no handler awaits a transport call while it holds queue_lock.
C16_NoSendUnderLock == \A h \in Handlers : Replying(h) => ~locked

PublishFails == [pubok |-> FALSE]

\* C17: when the send to the channel fails during approve, the id stays
\* removed, the failure is reported to the approving moderator, and no later
\* operation finds the id: every button on it is answered NotFound, the
\* listing does not show it, and no decided id is ever stored again.
C17_FailureStaysCommitted ==
    /\ \A q \in 1..MaxQid : applied[q] # <<>> => q \notin DOMAIN queue
    /\ Quiet =>
         \A q \in DOMAIN queue :
           Publishes(queue[q]) =>
             LET w == PressWith(World, "M1", "approve", q, PublishFails)
                 l == ListPending(w, "M1").last
             IN /\ w.last.outcome = "PublishFailed"
                /\ w.queue = DictPop(queue, q)
                /\ \A a \in KnownActions :
                     Press(w, "M1", a, q).last.outcome = "NotFound"
                /\ \A i \in 1..Len(l.listing) : l.listing[i] # q

\* an approve whose send failed has been reported and its id is gone
C17_Witness ==
    /\ Quiet
    /\ last.outcome = "PublishFailed"
    /\ last.qid \notin DOMAIN queue
    /\ applied[last.qid] = <<"approve">>

OnlyMatchingOverride ==
    /\ \A q \in DOMAIN queue' :
         IF queue'[q].has_media THEN queue'[q].edited_text = None
         ELSE queue'[q].edited_caption = None
    /\ \A q \in DOMAIN queue \cap DOMAIN queue' :
         /\ queue'[q].text = queue[q].text
         /\ queue'[q].caption = queue[q].caption
         /\ queue'[q].kind = queue[q].kind
         /\ queue'[q].has_media = queue[q].has_media

\* C18: no step changes the original text or caption of a stored submission,
\* and an edit sets only the override of the submission's type: edited_caption
\* stays unset on a submission that is not media, edited_text on a media one.
C18_OnlyMatchingOverride == [][OnlyMatchingOverride]_vars

\* the caption of a stored photo has been edited
C18_Witness ==
    /\ Quiet
    /\ last.outcome = "EditApplied"
    /\ \E q \in DOMAIN queue :
         /\ queue[q].has_media
         /\ queue[q].edited_caption = "X"
         /\ queue[q].caption = "cap"

\* C19: viewDetails and back change nothing in the queue, the edit sessions,
\* the id counter and the rate windows, and the content they show as current
\* is the edited content if there is one and the original otherwise, which
\* is what approve publishes.
C19_ViewsArePure ==
    Quiet =>
      \A q \in DOMAIN queue :
        LET d == Press(World, "M1", "details", q)
            b == Press(World, "M1", "back", q)
            a == Press(World, "M1", "approve", q)
            edited == EntryEdited(queue[q])
            current == IF Truthy(edited) THEN edited ELSE Original(queue[q])
        IN /\ d.last.outcome = "Details" /\ SameState(d)
           /\ b.last.outcome = "Back" /\ SameState(b)
           /\ Truthy(current) =>
                /\ d.last.content = current
                /\ b.last.content = current
                /\ Publishes(queue[q]) => a.last.content = current

\* the main view of an edited submission has been shown
C19_Witness ==
    /\ Quiet
    /\ last.outcome = "Back"
    /\ last.edited
    /\ last.content = "X"
    /\ last.qid \in DOMAIN queue

\* C20: requestEdit of a stored id by a moderator sets that moderator's edit
\* session to the id whatever session the moderator had, leaves the other
\* sessions and the stored submissions unchanged and changes nothing when
\* repeated; on an id that is not stored it is answered NotFound and no
\* session changes.
C20_RequestEdit ==
    Quiet =>
      \A mod \in AdminSet : \A q \in 1..MaxQid :
        LET w == Press(World, mod, "edit", q)
            w2 == Press(w, mod, "edit", q)
        IN IF q \in DOMAIN queue
           THEN /\ w.last.outcome = "EditPrompt"
                /\ w.editing = [editing EXCEPT ![mod] = q]
                /\ w.queue = queue
                /\ w2.last.outcome = "EditPrompt"
                /\ w2.editing = w.editing
                /\ w2.queue = queue
           ELSE w.last.outcome = "NotFound" /\ SameState(w)

\* M1 has moved the edit session to id 2 while M2 is editing id 1
C20_Witness ==
    /\ Quiet
    /\ last.outcome = "EditPrompt"
    /\ last.user = "M1"
    /\ last.qid = 2
    /\ editing["M1"] = 2
    /\ editing["M2"] = 1
    /\ {1, 2} \subseteq DOMAIN queue

\* the recorded timestamps of u inside the trailing window (t - W, t]
StampsIn(u, t) ==
    {k \in 1..Len(user_submissions[u]) :
        /\ t - user_submissions[u][k] < W
        /\ user_submissions[u][k] <= t}

\* C21: whatever the interleaving of the handlers of one sender's messages,
\* the number of that sender's recorded timestamps inside any trailing window
\* of RATE_LIMIT_WINDOW seconds never exceeds RATE_LIMIT_COUNT.
C21_WindowBounded ==
    \A u \in Users : \A t \in 0..MaxTime :
        Cardinality(StampsIn(u, t)) <= RATE_LIMIT_COUNT

\* C22: a message of a moderator who has an edit session stores no new
\* submission, draws no id and records no timestamp (the moderator's expired
\* timestamps may be dropped); if the message has no text the session and the
\* stored submissions are as before.
C22_SessionMessageIsNoSubmission ==
    Quiet =>
      \A mod \in AdminSet : \A m \in Messages(mod) :
        LET w == Submit(World, mod, m)
            kept(ts) == \E i \in 1..Len(w.subs[mod]) : w.subs[mod][i] = ts
        IN editing[mod] # 0 =>
             /\ w.last.outcome # "Accepted"
             /\ DOMAIN w.queue = DOMAIN queue
             /\ w.nq = _next_qid
             /\ w.subs[mod] = SelectSeq(user_submissions[mod], kept)
             /\ \A v \in Users \ {mod} : w.subs[v] = user_submissions[v]
             /\ ~Truthy(m.text) => w.editing = editing /\ w.queue = queue

\* a moderator who is editing has sent a photo and been told to send text
C22_Witness ==
    /\ Quiet
    /\ last.outcome = "TextOnly"
    /\ last.user = "M1"
    /\ editing["M1"] \in DOMAIN queue

====
